---- MODULE Spec2Model ----
(***************************************************************************)
(* Model of the client-side runtime of wayland-rs:                         *)
(*   - wayland-client/src/rust_imp/mod.rs : ImplDispatcher::dispatch, the  *)
(*     destruction handshake on the shared object map;                     *)
(*   - wayland-client/src/event_queue.rs  : EventQueueHandle, StateGuard,  *)
(*     EventQueue and dispatch_func over the libwayland connection.        *)
(* Spec      : threads running ImplDispatcher::dispatch on the shared map. *)
(* QueueSpec : one EventQueue, its handlers and the connection.            *)
(***************************************************************************)
EXTENDS Integers, Sequences, FiniteSets, TLC

\* ------------------------------------------------------------- bounds
NumThreads == 2
MaxHandlers == 2
MaxMessages == 2

Threads == 1..NumThreads
\* the object identifiers the map's allocator can hand out
Ids == {1, 2}
\* the proxies of the event queue, the handler types H, the two pending buffers
Proxies == {1, 2}
Types == {"A", "B"}
\* the handler types used where the types play no part
QueueTypes == {"A"}
\* the handler indices used where the number of handlers plays no part: one
\* handler shared by the proxies, or two to tell registrations apart
QueueHandlers == {0}
RegisterHandlers == {0, 1}
Queues == {"default", "named"}

VARIABLES
    \* ---- rust_imp/mod.rs: the object map and the dispatching threads
    map,               \* ObjectMap<ObjectMeta>: id -> [client_destroyed, server_destroyed]
    alive,             \* meta.alive of every object ever created (Arc<AtomicBool>)
    next_id,           \* the map's allocator of client-created identifiers
    lock,              \* the set of threads holding the Mutex around the map (at most one)
    pc,                \* position of every thread
    msg,               \* the message a thread is dispatching: [id, destructor]
    server_destroyed,  \* the local `server_destroyed` of dispatch (line 107)
    client_destroyed,  \* the local of the server-side marking
    calls,             \* invocations of self.implementation in the current dispatch
    result,            \* what the last dispatch of a thread returned
    \* ---- history of the object map (observations, never read by an action's guard)
    removals,          \* how many times each id was removed from the map
    removed_with,      \* the flags a record had when it was removed
    marks,             \* the sides that set their flag on a record, in the order they did
    seen_server,       \* whether dispatch started on a record already server-destroyed
    \* ---- event_queue.rs: one EventQueue and the connection behind it
    handlers,          \* EventQueueHandle.handlers: the type of each Box<Any>, in order
    wlevq,             \* EventQueue.wlevq: "None" or "Some"
    dispatcher,        \* per proxy, what wl_proxy_add_dispatcher stored
    requests,          \* requests sent and not yet processed by the compositor
    buffer,            \* per queue, the events the connection delivered, pending dispatch
    last_error,        \* the display's sticky error
    qpc,               \* "idle", "waiting" (inside a blocking call) or "aborted"
    call,              \* the blocking call in progress
    count,             \* events dispatched so far by the blocking call
    ret,               \* the last call of the queue's owner and what it returned
    delivered,         \* the events handed to dispatch, in order, with the handler invoked
    nsent,             \* requests sent so far
    nspont,            \* unsolicited events produced so far
    latest             \* per proxy, the handler of the last register call that returned

regvars == <<map, alive, next_id, lock, pc, msg, server_destroyed, client_destroyed,
             calls, result, removals, removed_with, marks, seen_server>>

qvars == <<handlers, wlevq, dispatcher, requests, buffer, last_error, qpc, call,
           count, ret, delivered, nsent, nspont, latest>>

vars == <<regvars, qvars>>

\* ------------------------------------------------------ ObjectMap helpers
NoMsg == [id |-> 0, destructor |-> FALSE]
NewMeta == [client_destroyed |-> FALSE, server_destroyed |-> FALSE]

\* ObjectMap::find(id).is_some()
find(m, id) == id \in DOMAIN m

\* ObjectMap::remove(id): deleting an absent id changes nothing
map_remove(m, id) == [i \in DOMAIN m \ {id} |-> m[i]]

\* ObjectMap::with(id, |obj| obj.meta.client_destroyed = true)
with_client_destroyed(m, id) ==
    IF find(m, id) THEN [m EXCEPT ![id].client_destroyed = TRUE] ELSE m

\* ObjectMap::with(id, |obj| obj.meta.server_destroyed = true)
with_server_destroyed(m, id) ==
    IF find(m, id) THEN [m EXCEPT ![id].server_destroyed = TRUE] ELSE m

\* the history kept when a step takes the map from m to m2
NoteRemovals(m, m2) ==
    /\ removals' = [i \in Ids |->
            IF i \in DOMAIN m /\ i \notin DOMAIN m2 THEN removals[i] + 1 ELSE removals[i]]
    /\ removed_with' = [i \in Ids |->
            IF i \in DOMAIN m /\ i \notin DOMAIN m2 THEN m[i] ELSE removed_with[i]]

NoteFlag(m, id, side) ==
    marks' = [marks EXCEPT ![id] =
        IF find(m, id) /\ \A k \in 1..Len(marks[id]) : marks[id][k] # side
        THEN Append(marks[id], side) ELSE marks[id]]

\* -------------------------------------------------------------- Init
RegistryInit ==
    /\ map = << >>
    /\ alive = [i \in Ids |-> FALSE]
    /\ next_id = 1
    /\ lock = {}
    /\ pc = [t \in Threads |-> "idle"]
    /\ msg = [t \in Threads |-> NoMsg]
    /\ server_destroyed = [t \in Threads |-> FALSE]
    /\ client_destroyed = [t \in Threads |-> FALSE]
    /\ calls = [t \in Threads |-> 0]
    /\ result = [t \in Threads |-> "none"]
    /\ removals = [i \in Ids |-> 0]
    /\ removed_with = [i \in Ids |-> NewMeta]
    /\ marks = [i \in Ids |-> << >>]
    /\ seen_server = [t \in Threads |-> FALSE]

Free(t) == pc[t] \in {"idle", "done"}

\* ---------------------------------------------------- Object Registry
\* insert(id, interface): a record with both flags false and alive = true; the
\* allocator hands out identifiers in increasing order.
insert ==
    /\ lock = {}
    /\ next_id \in Ids
    /\ ~find(map, next_id)
    /\ map' = [i \in DOMAIN map \cup {next_id} |->
                 IF i = next_id THEN NewMeta ELSE map[i]]
    /\ alive' = [alive EXCEPT ![next_id] = TRUE]
    /\ next_id' = next_id + 1
    /\ UNCHANGED qvars
    /\ UNCHANGED <<lock, pc, msg, server_destroyed, client_destroyed, calls, result,
                   removals, removed_with, marks, seen_server>>

\* mark_server_destroyed(id), the peer's side of the handshake: lock the map,
\* set the flag, remove the record if the client's flag was already set, unlock.
mark_server_destroyed_lock(t, id) ==
    /\ Free(t)
    /\ id < next_id
    /\ lock = {}
    /\ lock' = {t}
    /\ pc' = [pc EXCEPT ![t] = "s_with"]
    /\ msg' = [msg EXCEPT ![t] = [id |-> id, destructor |-> FALSE]]
    /\ calls' = [calls EXCEPT ![t] = 0]
    /\ result' = [result EXCEPT ![t] = "none"]
    /\ seen_server' = [seen_server EXCEPT ![t] = FALSE]
    /\ UNCHANGED qvars
    /\ UNCHANGED <<map, alive, next_id, server_destroyed, client_destroyed,
                   removals, removed_with, marks>>

mark_server_destroyed_with(t) ==
    /\ pc[t] = "s_with"
    /\ lock = {t}
    /\ map' = with_server_destroyed(map, msg[t].id)
    /\ client_destroyed' = [client_destroyed EXCEPT ![t] =
            IF find(map, msg[t].id) THEN map[msg[t].id].client_destroyed ELSE FALSE]
    /\ NoteFlag(map, msg[t].id, "server")
    /\ pc' = [pc EXCEPT ![t] = "s_remove"]
    /\ UNCHANGED qvars
    /\ UNCHANGED <<alive, next_id, lock, msg, server_destroyed, calls, result,
                   removals, removed_with, seen_server>>

mark_server_destroyed_remove(t) ==
    /\ pc[t] = "s_remove"
    /\ lock = {t}
    /\ map' = IF client_destroyed[t] THEN map_remove(map, msg[t].id) ELSE map
    /\ NoteRemovals(map, map')
    /\ pc' = [pc EXCEPT ![t] = "s_unlock"]
    /\ UNCHANGED qvars
    /\ UNCHANGED <<alive, next_id, lock, msg, server_destroyed, client_destroyed,
                   calls, result, marks, seen_server>>

mark_server_destroyed_unlock(t) ==
    /\ pc[t] = "s_unlock"
    /\ lock = {t}
    /\ lock' = {}
    /\ pc' = [pc EXCEPT ![t] = "done"]
    /\ client_destroyed' = [client_destroyed EXCEPT ![t] = FALSE]
    /\ UNCHANGED qvars
    /\ UNCHANGED <<map, alive, next_id, msg, server_destroyed, calls, result,
                   removals, removed_with, marks, seen_server>>

\* ------------------------------------------- ImplDispatcher::dispatch
\* a dispatch without the is_destructor test: every event takes the destructor's
\* branch
dispatch_from_raw_always_destructor(t, id, decoded) ==
    /\ Free(t)
    /\ id < next_id
    /\ calls' = [calls EXCEPT ![t] = 0]
    /\ seen_server' = [seen_server EXCEPT ![t] =
            decoded = "destructor" /\ find(map, id) /\ map[id].server_destroyed]
    /\ IF decoded = "fail"
       THEN /\ pc' = [pc EXCEPT ![t] = "done"]
            /\ msg' = [msg EXCEPT ![t] = NoMsg]
            /\ result' = [result EXCEPT ![t] = "Err"]
       ELSE /\ pc' = [pc EXCEPT ![t] = "alive_store"]
            /\ msg' = [msg EXCEPT ![t] =
                    [id |-> id, destructor |-> decoded = "destructor"]]
            /\ result' = [result EXCEPT ![t] = "none"]
    /\ UNCHANGED qvars
    /\ UNCHANGED <<map, alive, next_id, lock, server_destroyed, client_destroyed,
                   removals, removed_with, marks>>

\* a dispatch that marks the object dead before it decodes the message
dispatch_from_raw_after_store(t, id, decoded) ==
    /\ Free(t)
    /\ id < next_id
    /\ calls' = [calls EXCEPT ![t] = 0]
    /\ seen_server' = [seen_server EXCEPT ![t] =
            decoded = "destructor" /\ find(map, id) /\ map[id].server_destroyed]
    /\ alive' = [alive EXCEPT ![id] = FALSE]
    /\ IF decoded = "fail"
       THEN /\ pc' = [pc EXCEPT ![t] = "done"]
            /\ msg' = [msg EXCEPT ![t] = NoMsg]
            /\ result' = [result EXCEPT ![t] = "Err"]
       ELSE /\ pc' = [pc EXCEPT ![t] =
                    IF decoded = "destructor" THEN "alive_store" ELSE "call"]
            /\ msg' = [msg EXCEPT ![t] =
                    [id |-> id, destructor |-> decoded = "destructor"]]
            /\ result' = [result EXCEPT ![t] = "none"]
    /\ UNCHANGED qvars
    /\ UNCHANGED <<map, next_id, lock, server_destroyed, client_destroyed,
                   removals, removed_with, marks>>

\* let message = I::Event::from_raw(msg, map)?;  if message.is_destructor() ...
\* decoded is what the codec makes of the raw message: "fail", "event" or
\* "destructor".
dispatch_from_raw(t, id, decoded) ==
    /\ Free(t)
    /\ id < next_id
    /\ calls' = [calls EXCEPT ![t] = 0]
    /\ seen_server' = [seen_server EXCEPT ![t] =
            decoded = "destructor" /\ find(map, id) /\ map[id].server_destroyed]
    /\ IF decoded = "fail"
       THEN /\ pc' = [pc EXCEPT ![t] = "done"]
            /\ msg' = [msg EXCEPT ![t] = NoMsg]
            /\ result' = [result EXCEPT ![t] = "Err"]
       ELSE /\ pc' = [pc EXCEPT ![t] =
                    IF decoded = "destructor" THEN "alive_store" ELSE "call"]
            /\ msg' = [msg EXCEPT ![t] =
                    [id |-> id, destructor |-> decoded = "destructor"]]
            /\ result' = [result EXCEPT ![t] = "none"]
    /\ UNCHANGED qvars
    /\ UNCHANGED <<map, alive, next_id, lock, server_destroyed, client_destroyed,
                   removals, removed_with, marks>>

\* a dispatch that leaves the liveness flag as it is
dispatch_alive_store_skipped(t) ==
    /\ pc[t] = "alive_store"
    /\ pc' = [pc EXCEPT ![t] = "lock"]
    /\ UNCHANGED qvars
    /\ UNCHANGED <<map, alive, next_id, lock, msg, server_destroyed, client_destroyed,
                   calls, result, removals, removed_with, marks, seen_server>>

\* proxy.object.meta.alive.store(false, Ordering::Release);
dispatch_alive_store(t) ==
    /\ pc[t] = "alive_store"
    /\ alive' = [alive EXCEPT ![msg[t].id] = FALSE]
    /\ pc' = [pc EXCEPT ![t] = "lock"]
    /\ UNCHANGED qvars
    /\ UNCHANGED <<map, next_id, lock, msg, server_destroyed, client_destroyed,
                   calls, result, removals, removed_with, marks, seen_server>>

\* let mut map = proxy.map.lock().unwrap();
dispatch_lock(t) ==
    /\ pc[t] = "lock"
    /\ lock = {}
    /\ lock' = {t}
    /\ pc' = [pc EXCEPT ![t] = "with"]
    /\ UNCHANGED qvars
    /\ UNCHANGED <<map, alive, next_id, msg, server_destroyed, client_destroyed,
                   calls, result, removals, removed_with, marks, seen_server>>

\* a dispatch whose closure returns false whatever the server's flag is
dispatch_with_flag_ignored(t) ==
    /\ pc[t] = "with"
    /\ lock = {t}
    /\ map' = with_client_destroyed(map, msg[t].id)
    /\ server_destroyed' = [server_destroyed EXCEPT ![t] = FALSE]
    /\ NoteFlag(map, msg[t].id, "client")
    /\ pc' = [pc EXCEPT ![t] = "remove"]
    /\ UNCHANGED qvars
    /\ UNCHANGED <<alive, next_id, lock, msg, client_destroyed, calls, result,
                   removals, removed_with, seen_server>>

\* a dispatch that drops the MutexGuard once the flag is set, before the removal
dispatch_with_lock_released(t) ==
    /\ pc[t] = "with"
    /\ lock = {t}
    /\ map' = with_client_destroyed(map, msg[t].id)
    /\ server_destroyed' = [server_destroyed EXCEPT ![t] =
            IF find(map, msg[t].id) THEN map[msg[t].id].server_destroyed ELSE FALSE]
    /\ NoteFlag(map, msg[t].id, "client")
    /\ lock' = {}
    /\ pc' = [pc EXCEPT ![t] = "remove"]
    /\ UNCHANGED qvars
    /\ UNCHANGED <<alive, next_id, msg, client_destroyed, calls, result,
                   removals, removed_with, seen_server>>

\* a dispatch that unwraps the lookup: on an absent record it panics, lock in hand
dispatch_with_unwrap(t) ==
    /\ pc[t] = "with"
    /\ lock = {t}
    /\ map' = with_client_destroyed(map, msg[t].id)
    /\ server_destroyed' = [server_destroyed EXCEPT ![t] =
            IF find(map, msg[t].id) THEN map[msg[t].id].server_destroyed ELSE FALSE]
    /\ NoteFlag(map, msg[t].id, "client")
    /\ pc' = [pc EXCEPT ![t] = IF find(map, msg[t].id) THEN "remove" ELSE "panicked"]
    /\ result' = [result EXCEPT ![t] = IF find(map, msg[t].id) THEN result[t] ELSE "panic"]
    /\ UNCHANGED qvars
    /\ UNCHANGED <<alive, next_id, lock, msg, client_destroyed, calls,
                   removals, removed_with, seen_server>>

\* let server_destroyed = map.with(proxy.id, |obj| {
\*     obj.meta.client_destroyed = true; obj.meta.server_destroyed }).unwrap_or(false);
dispatch_with(t) ==
    /\ pc[t] = "with"
    /\ lock = {t}
    /\ map' = with_client_destroyed(map, msg[t].id)
    /\ server_destroyed' = [server_destroyed EXCEPT ![t] =
            IF find(map, msg[t].id) THEN map[msg[t].id].server_destroyed ELSE FALSE]
    /\ NoteFlag(map, msg[t].id, "client")
    /\ pc' = [pc EXCEPT ![t] = "remove"]
    /\ UNCHANGED qvars
    /\ UNCHANGED <<alive, next_id, lock, msg, client_destroyed, calls, result,
                   removals, removed_with, seen_server>>

\* a dispatch that removes the record whatever the server's flag is
dispatch_remove_unconditional(t) ==
    /\ pc[t] = "remove"
    /\ lock = {t}
    /\ map' = map_remove(map, msg[t].id)
    /\ NoteRemovals(map, map')
    /\ pc' = [pc EXCEPT ![t] = "unlock"]
    /\ UNCHANGED qvars
    /\ UNCHANGED <<alive, next_id, lock, msg, server_destroyed, client_destroyed,
                   calls, result, marks, seen_server>>

\* a dispatch that never removes the record
dispatch_remove_forgotten(t) ==
    /\ pc[t] = "remove"
    /\ lock = {t}
    /\ pc' = [pc EXCEPT ![t] = "unlock"]
    /\ UNCHANGED qvars
    /\ UNCHANGED <<map, alive, next_id, lock, msg, server_destroyed, client_destroyed,
                   calls, result, removals, removed_with, marks, seen_server>>

\* if server_destroyed { map.remove(proxy.id); }
dispatch_remove(t) ==
    /\ pc[t] = "remove"
    /\ lock = {t}
    /\ map' = IF server_destroyed[t] THEN map_remove(map, msg[t].id) ELSE map
    /\ NoteRemovals(map, map')
    /\ pc' = [pc EXCEPT ![t] = "unlock"]
    /\ UNCHANGED qvars
    /\ UNCHANGED <<alive, next_id, lock, msg, server_destroyed, client_destroyed,
                   calls, result, marks, seen_server>>

\* a dispatch whose MutexGuard lives until the function returns
dispatch_unlock_guard_kept(t) ==
    /\ pc[t] = "unlock"
    /\ lock = {t}
    /\ pc' = [pc EXCEPT ![t] = "call"]
    /\ server_destroyed' = [server_destroyed EXCEPT ![t] = FALSE]
    /\ UNCHANGED qvars
    /\ UNCHANGED <<map, alive, next_id, lock, msg, client_destroyed, calls, result,
                   removals, removed_with, marks, seen_server>>

\* the end of the block: the MutexGuard is dropped
dispatch_unlock(t) ==
    /\ pc[t] = "unlock"
    /\ lock = {t}
    /\ lock' = {}
    /\ pc' = [pc EXCEPT ![t] = "call"]
    /\ server_destroyed' = [server_destroyed EXCEPT ![t] = FALSE]
    /\ UNCHANGED qvars
    /\ UNCHANGED <<map, alive, next_id, msg, client_destroyed, calls, result,
                   removals, removed_with, marks, seen_server>>

\* (self.implementation)(message, Proxy::<I>::wrap(proxy)): the callback starts
dispatch_implementation(t) ==
    /\ pc[t] = "call"
    /\ calls' = [calls EXCEPT ![t] = calls[t] + 1]
    /\ pc' = [pc EXCEPT ![t] = "in_callback"]
    /\ UNCHANGED qvars
    /\ UNCHANGED <<map, alive, next_id, lock, msg, server_destroyed, client_destroyed,
                   result, removals, removed_with, marks, seen_server>>

\* the callback returns, then Ok(())
dispatch_return(t) ==
    /\ pc[t] = "in_callback"
    /\ result' = [result EXCEPT ![t] = "Ok"]
    /\ pc' = [pc EXCEPT ![t] = "done"]
    /\ UNCHANGED qvars
    /\ UNCHANGED <<map, alive, next_id, lock, msg, server_destroyed, client_destroyed,
                   calls, removals, removed_with, marks, seen_server>>

\* a default dispatcher that gives the object up: it marks it dead and destroyed
default_dispatcher_marks_dead(t, id) ==
    /\ Free(t)
    /\ id < next_id
    /\ lock = {}
    /\ msg' = [msg EXCEPT ![t] = [id |-> id, destructor |-> FALSE]]
    /\ calls' = [calls EXCEPT ![t] = 0]
    /\ seen_server' = [seen_server EXCEPT ![t] = FALSE]
    /\ result' = [result EXCEPT ![t] = "Err"]
    /\ pc' = [pc EXCEPT ![t] = "done"]
    /\ alive' = [alive EXCEPT ![id] = FALSE]
    /\ map' = with_client_destroyed(map, id)
    /\ UNCHANGED qvars
    /\ UNCHANGED <<next_id, lock, server_destroyed, client_destroyed,
                   removals, removed_with, marks>>

\* DefaultDisp::dispatch, the dispatcher of an object nobody implemented: it decodes
\* nothing, prints "Received an event for unimplemented object" and returns Err(())
default_dispatcher(t, id) ==
    /\ Free(t)
    /\ id < next_id
    /\ msg' = [msg EXCEPT ![t] = [id |-> id, destructor |-> FALSE]]
    /\ calls' = [calls EXCEPT ![t] = 0]
    /\ seen_server' = [seen_server EXCEPT ![t] = FALSE]
    /\ result' = [result EXCEPT ![t] = "Err"]
    /\ pc' = [pc EXCEPT ![t] = "done"]
    /\ UNCHANGED qvars
    /\ UNCHANGED <<map, alive, next_id, lock, server_destroyed, client_destroyed,
                   removals, removed_with, marks>>

\* ProxyMap::get(id) called by the running callback: ProxyInner::from_id locks the
\* map (a std Mutex, which its holder cannot lock again) ...
get_from_id_lock(t) ==
    /\ pc[t] = "in_callback"
    /\ lock = {}
    /\ lock' = {t}
    /\ pc' = [pc EXCEPT ![t] = "get"]
    /\ UNCHANGED qvars
    /\ UNCHANGED <<map, alive, next_id, msg, server_destroyed, client_destroyed,
                   calls, result, removals, removed_with, marks, seen_server>>

\* ... looks the id up and unlocks; the callback goes on
get_from_id_unlock(t) ==
    /\ pc[t] = "get"
    /\ lock = {t}
    /\ lock' = {}
    /\ pc' = [pc EXCEPT ![t] = "in_callback"]
    /\ UNCHANGED qvars
    /\ UNCHANGED <<map, alive, next_id, msg, server_destroyed, client_destroyed,
                   calls, result, removals, removed_with, marks, seen_server>>

\* the connection met a message that does not decode: the dispatch of some thread
\* returned Err(()) without a decoded message
protocol_error ==
    \E t \in Threads : pc[t] = "done" /\ result[t] = "Err" /\ msg[t] = NoMsg

RegistryNext ==
    \/ insert
    \/ \E t \in Threads, id \in Ids : mark_server_destroyed_lock(t, id)
    \/ \E t \in Threads : mark_server_destroyed_with(t)
    \/ \E t \in Threads : mark_server_destroyed_remove(t)
    \/ \E t \in Threads : mark_server_destroyed_unlock(t)
    \/ \E t \in Threads, id \in Ids, d \in {"fail", "event", "destructor"} :
            dispatch_from_raw(t, id, d)
    \/ \E t \in Threads : dispatch_alive_store(t)
    \/ \E t \in Threads : dispatch_lock(t)
    \/ \E t \in Threads : dispatch_with(t)
    \/ \E t \in Threads : dispatch_remove(t)
    \/ \E t \in Threads : dispatch_unlock(t)
    \/ \E t \in Threads : dispatch_implementation(t)
    \/ \E t \in Threads : dispatch_return(t)

\* the Dispatch Engine: every message of the connection goes to the dispatcher of
\* its object, the default one or an implementation, whose callback may use the
\* map; after a decode failure no further message is taken from the connection
EngineNext ==
    \/ insert
    \/ \E t \in Threads, id \in Ids : ~protocol_error /\ mark_server_destroyed_lock(t, id)
    \/ \E t \in Threads : mark_server_destroyed_with(t)
    \/ \E t \in Threads : mark_server_destroyed_remove(t)
    \/ \E t \in Threads : mark_server_destroyed_unlock(t)
    \/ \E t \in Threads, id \in Ids, d \in {"fail", "event", "destructor"} :
            ~protocol_error /\ dispatch_from_raw(t, id, d)
    \/ \E t \in Threads, id \in Ids : ~protocol_error /\ default_dispatcher(t, id)
    \/ \E t \in Threads : dispatch_alive_store(t)
    \/ \E t \in Threads : dispatch_lock(t)
    \/ \E t \in Threads : dispatch_with(t)
    \/ \E t \in Threads : dispatch_remove(t)
    \/ \E t \in Threads : dispatch_unlock(t)
    \/ \E t \in Threads : dispatch_implementation(t)
    \/ \E t \in Threads : get_from_id_lock(t)
    \/ \E t \in Threads : get_from_id_unlock(t)
    \/ \E t \in Threads : dispatch_return(t)

\* ================================================================ event_queue.rs
NoDispatcher == [set |-> FALSE, h |-> 0, H |-> "-"]
NoRet == [op |-> "none", res |-> "none", n |-> 0, idx |-> 0, H |-> "-", ref |-> "-",
          had |-> 0, log0 |-> 0]
Done == [proxy |-> 0, kind |-> "done"]
Outcomes == {"ok", "unknown_opcode", "panic"}

\* create_event_queue(display, evq): no handler yet, wlevq as given
EventQueueInit(evq) ==
    /\ handlers = << >>
    /\ wlevq = evq
    /\ dispatcher = [p \in Proxies |-> NoDispatcher]
    /\ requests = << >>
    /\ buffer = [q \in Queues |-> << >>]
    /\ last_error = FALSE
    /\ qpc = "idle"
    /\ call = "none"
    /\ count = 0
    /\ ret = NoRet
    /\ delivered = << >>
    /\ nsent = 0
    /\ nspont = 0
    /\ latest = [p \in Proxies |-> NoDispatcher]

\* the map's threads, beside an EventQueue on the default queue that stays idle
Init == RegistryInit /\ EventQueueInit("None")

\* an EventQueue on the default queue or on a queue of its own
QueueInit == RegistryInit /\ \E evq \in {"None", "Some"} : EventQueueInit(evq)

\* the queue the proxies of this EventQueue are assigned to: the one it was
\* created for, or the display's default queue
ProxyQueue == IF wlevq = "Some" THEN "named" ELSE "default"

\* ------------------------------------------------ the connection's side
\* how many events the connection has delivered to the queue so far (the answer of
\* every processed request and every unsolicited event); an event carries its
\* arrival number n
arrived == nspont + nsent - Cardinality({i \in DOMAIN requests : ~requests[i].sync})

\* a request leaves through a proxy (the owner of the queue is not in a call)
send_request(p) ==
    /\ qpc = "idle"
    /\ ~last_error
    /\ nsent + nspont < MaxMessages
    /\ requests' = Append(requests, [proxy |-> p, sync |-> FALSE])
    /\ nsent' = nsent + 1
    /\ ret' = NoRet
    /\ UNCHANGED regvars
    /\ UNCHANGED <<handlers, wlevq, dispatcher, buffer, last_error, qpc, call,
                   count, delivered, nspont, latest>>

\* the compositor processes the oldest request and answers it with one event, which
\* the connection delivers to the proxies' queue (read by a blocked call of this
\* queue or by another queue's thread); a sync request is answered by the
\* callback's done event
compositor_process ==
    /\ qpc # "aborted"
    /\ ~last_error
    /\ requests # << >>
    /\ buffer' = [buffer EXCEPT ![ProxyQueue] =
            Append(@, IF Head(requests).sync THEN Done
                      ELSE [proxy |-> Head(requests).proxy, kind |-> "reply",
                            n |-> arrived + 1])]
    /\ requests' = Tail(requests)
    /\ UNCHANGED regvars
    /\ UNCHANGED <<handlers, wlevq, dispatcher, last_error, qpc, call, count,
                   ret, delivered, nsent, nspont, latest>>

\* the compositor sends an event nobody asked for, and the connection delivers it
compositor_event(p) ==
    /\ qpc # "aborted"
    /\ ~last_error
    /\ nsent + nspont < MaxMessages
    /\ buffer' = [buffer EXCEPT ![ProxyQueue] = 
            Append(@, [proxy |-> p, kind |-> "event", n |-> arrived + 1])]
    /\ nspont' = nspont + 1
    /\ UNCHANGED regvars
    /\ UNCHANGED <<handlers, wlevq, dispatcher, requests, last_error, qpc, call,
                   count, ret, delivered, nsent, latest>>

\* the transport fails: the display's error is set and stays
connection_fail ==
    /\ qpc # "aborted"
    /\ ~last_error
    /\ last_error' = TRUE
    /\ UNCHANGED regvars
    /\ UNCHANGED <<handlers, wlevq, dispatcher, requests, buffer, qpc, call, count,
                   ret, delivered, nsent, nspont, latest>>

\* ------------------------------------------------------ dispatch_func
\* dispatch_func::<P,H>(handler, proxy, opcode, ..): the handler bound to the proxy
\* is invoked; out is what handler.message did: "ok" returns 0, "unknown_opcode"
\* (Ok(Err(()))) and "panic" (Err(_)) abort the process.
dispatch_func(e, out) ==
    [proxy |-> e.proxy, kind |-> e.kind, n |-> e.n, h |-> dispatcher[e.proxy].h,
     out |-> out]

\* a dispatch_func whose catch_unwind swallows the panic: it returns to the library
dispatch_func_abort_unwound(out) == out = "unknown_opcode"

\* match ret { Ok(Ok(())) => return 0, Ok(Err(())) => abort(), Err(_) => abort() }
dispatch_func_abort(out) == out # "ok"

\* an event of a proxy without dispatcher is dropped by the library
dropped(e) ==
    [proxy |-> e.proxy, kind |-> e.kind, n |-> e.n, h |-> 0, out |-> "dropped"]

\* the event at position fault of queue q can make its handler fail
CanFault(q, fault) ==
    \/ fault = 0
    \/ /\ fault \in 1..Len(buffer[q])
       /\ ~last_error
       /\ buffer[q][fault].kind # "done"
       /\ dispatcher[buffer[q][fault].proxy].set

\* libwayland's dispatch of everything queued on q, in order; the handler of the
\* event at position fault (0: none) fails with why, which ends the process there
dispatch_queue(q, fault, why) ==
    LET buf == buffer[q]
        upto == IF fault \in 1..Len(buf) THEN fault ELSE Len(buf)
        taken == SubSeq(buf, 1, upto)
        evs == SelectSeq(taken, LAMBDA e : e.kind # "done")
    IN  [q |-> q,
         ret |-> upto,
         entries |-> [i \in 1..Len(evs) |->
                        IF ~dispatcher[evs[i].proxy].set THEN dropped(evs[i])
                        ELSE dispatch_func(evs[i],
                                IF fault # 0 /\ i = Len(evs) THEN why ELSE "ok")],
         rest |-> SubSeq(buf, upto + 1, Len(buf)),
         aborted |-> fault # 0 /\ dispatch_func_abort(why),
         done |-> \E i \in 1..Len(taken) : taken[i].kind = "done"]

\* wl_display_dispatch_queue_pending(display, evq): -1 on a display in error, else
\* dispatches what is queued, without reading the connection, and returns the count
wl_display_dispatch_queue_pending(q, fault, why) ==
    IF last_error
    THEN [q |-> q, ret |-> -1, entries |-> << >>, rest |-> buffer[q],
          aborted |-> FALSE, done |-> FALSE]
    ELSE dispatch_queue(q, fault, why)

\* wl_display_dispatch_pending(display): the same on the default queue
wl_display_dispatch_pending(fault, why) ==
    wl_display_dispatch_queue_pending("default", fault, why)

\* a result that takes a count of zero for a failure: if ret > 0 { Ok } else { Err }
io_result_positive(op, r, n, had, log0) ==
    [NoRet EXCEPT !.op = op,
                  !.res = IF r.aborted THEN "abort" ELSE IF n > 0 THEN "Ok" ELSE "Err",
                  !.n = IF ~r.aborted /\ n > 0 THEN n ELSE 0,
                  !.had = had,
                  !.log0 = log0]

\* if ret >= 0 { Ok(ret) } else { Err(IoError::last_os_error()) }
io_result(op, r, n, had, log0) ==
    [NoRet EXCEPT !.op = op,
                  !.res = IF r.aborted THEN "abort" ELSE IF n >= 0 THEN "Ok" ELSE "Err",
                  !.n = IF ~r.aborted /\ n >= 0 THEN n ELSE 0,
                  !.had = had,
                  !.log0 = log0]

\* ---------------------------------------------------------- EventQueue
\* EventQueue::dispatch
dispatch(fault, why) ==
    /\ qpc = "idle"
    /\ LET r == IF wlevq = "Some"
                THEN wl_display_dispatch_queue_pending("named", fault, why)
                ELSE wl_display_dispatch_pending(fault, why)
       IN  /\ CanFault(r.q, fault)
           /\ delivered' = delivered \o r.entries
           /\ buffer' = [buffer EXCEPT ![r.q] = r.rest]
           /\ qpc' = IF r.aborted THEN "aborted" ELSE "idle"
           /\ ret' = io_result("dispatch", r, r.ret, Len(buffer[r.q]), Len(delivered))
    /\ UNCHANGED regvars
    /\ UNCHANGED <<handlers, wlevq, dispatcher, requests, last_error, call, count,
                   nsent, nspont, latest>>

\* a dispatch_pending that calls the blocking wl_display_dispatch_queue: with
\* nothing queued it waits for the connection
dispatch_pending_blocking(fault, why) ==
    /\ qpc = "idle"
    /\ LET r == wl_display_dispatch_queue_pending(ProxyQueue, fault, why)
           wait == buffer[ProxyQueue] = << >> /\ ~last_error
       IN  /\ CanFault(r.q, fault)
           /\ delivered' = delivered \o r.entries
           /\ buffer' = [buffer EXCEPT ![r.q] = r.rest]
           /\ qpc' = IF wait THEN "waiting" ELSE IF r.aborted THEN "aborted" ELSE "idle"
           /\ call' = IF wait THEN "dispatch_pending" ELSE call
           /\ ret' = IF wait
                     THEN [NoRet EXCEPT !.op = "dispatch_pending", !.res = "blocked",
                                        !.log0 = Len(delivered)]
                     ELSE io_result("dispatch_pending", r, r.ret, Len(buffer[r.q]),
                                    Len(delivered))
    /\ UNCHANGED regvars
    /\ UNCHANGED <<handlers, wlevq, dispatcher, requests, last_error, count,
                   nsent, nspont, latest>>

\* a dispatch_pending whose Some(evq) arm calls wl_display_dispatch_pending too
dispatch_pending_default_queue(fault, why) ==
    /\ qpc = "idle"
    /\ LET r == wl_display_dispatch_pending(fault, why)
       IN  /\ CanFault(r.q, fault)
           /\ delivered' = delivered \o r.entries
           /\ buffer' = [buffer EXCEPT ![r.q] = r.rest]
           /\ qpc' = IF r.aborted THEN "aborted" ELSE "idle"
           /\ ret' = io_result("dispatch_pending", r, r.ret, Len(buffer[ProxyQueue]),
                               Len(delivered))
    /\ UNCHANGED regvars
    /\ UNCHANGED <<handlers, wlevq, dispatcher, requests, last_error, call, count,
                   nsent, nspont, latest>>

\* EventQueue::dispatch_pending
dispatch_pending(fault, why) ==
    /\ qpc = "idle"
    /\ LET r == IF wlevq = "Some"
                THEN wl_display_dispatch_queue_pending("named", fault, why)
                ELSE wl_display_dispatch_pending(fault, why)
       IN  /\ CanFault(r.q, fault)
           /\ delivered' = delivered \o r.entries
           /\ buffer' = [buffer EXCEPT ![r.q] = r.rest]
           /\ qpc' = IF r.aborted THEN "aborted" ELSE "idle"
           /\ ret' = io_result("dispatch_pending", r, r.ret, Len(buffer[r.q]),
                               Len(delivered))
    /\ UNCHANGED regvars
    /\ UNCHANGED <<handlers, wlevq, dispatcher, requests, last_error, call, count,
                   nsent, nspont, latest>>

\* a sync_roundtrip that only dispatches what is pending
sync_roundtrip_pending ==
    /\ qpc = "idle"
    /\ LET r == wl_display_dispatch_queue_pending(ProxyQueue, 0, "ok")
       IN  /\ delivered' = delivered \o r.entries
           /\ buffer' = [buffer EXCEPT ![r.q] = r.rest]
           /\ ret' = io_result("sync_roundtrip", r, r.ret, Len(buffer[r.q]),
                               Len(delivered))
    /\ UNCHANGED regvars
    /\ UNCHANGED <<handlers, wlevq, dispatcher, requests, last_error, qpc, call,
                   count, nsent, nspont, latest>>

\* EventQueue::sync_roundtrip, the call: wl_display_roundtrip_queue(display, evtq) or
\* wl_display_roundtrip(display) sends a sync request and starts waiting for its
\* done event; on a display in error it returns -1 at once
sync_roundtrip ==
    /\ qpc = "idle"
    /\ IF last_error
       THEN /\ ret' = [NoRet EXCEPT !.op = "sync_roundtrip", !.res = "Err",
                                    !.had = Len(buffer[ProxyQueue]),
                                    !.log0 = Len(delivered)]
            /\ UNCHANGED <<requests, qpc, call, count>>
       ELSE /\ requests' = Append(requests, [proxy |-> 0, sync |-> TRUE])
            /\ qpc' = "waiting"
            /\ call' = "sync_roundtrip"
            /\ count' = 0
            /\ ret' = [NoRet EXCEPT !.op = "sync_roundtrip", !.res = "blocked",
                                    !.had = Len(buffer[ProxyQueue]),
                                    !.log0 = Len(delivered)]
    /\ UNCHANGED regvars
    /\ UNCHANGED <<handlers, wlevq, dispatcher, buffer, last_error, delivered,
                   nsent, nspont, latest>>

\* inside the blocking call: wl_display_dispatch_queue wakes up when events were
\* read (or the display failed) and dispatches them; the roundtrip goes on until
\* the done event was among them, and the call returns through
\* `if ret >= 0 { Ok(ret) } else { Err(..) }`
wl_display_dispatch_queue(fault, why) ==
    /\ qpc = "waiting"
    /\ buffer[ProxyQueue] # << >> \/ last_error
    /\ LET r == wl_display_dispatch_queue_pending(ProxyQueue, fault, why)
           more == call = "sync_roundtrip" /\ r.ret >= 0 /\ ~r.done /\ ~r.aborted
       IN  /\ CanFault(r.q, fault)
           /\ delivered' = delivered \o r.entries
           /\ buffer' = [buffer EXCEPT ![r.q] = r.rest]
           /\ qpc' = IF r.aborted THEN "aborted" ELSE IF more THEN "waiting" ELSE "idle"
           /\ call' = IF more THEN call ELSE "none"
           /\ count' = IF more THEN count + r.ret ELSE 0
           /\ ret' = IF more THEN ret
                     ELSE io_result(call, r, IF r.ret >= 0 THEN count + r.ret ELSE r.ret,
                                    ret.had, ret.log0)
    /\ UNCHANGED regvars
    /\ UNCHANGED <<handlers, wlevq, dispatcher, requests, last_error, nsent,
                   nspont, latest>>

\* ---------------------------------------------------- EventQueueHandle
\* an add_handler that returns the length after the push
add_handler_len(H) ==
    /\ qpc = "idle"
    /\ Len(handlers) < MaxHandlers
    /\ handlers' = Append(handlers, H)
    /\ ret' = [NoRet EXCEPT !.op = "add_handler", !.res = "Ok",
                            !.idx = Len(handlers'), !.H = H]
    /\ UNCHANGED regvars
    /\ UNCHANGED <<wlevq, dispatcher, requests, buffer, last_error, qpc, call,
                   count, delivered, nsent, nspont, latest>>

\* self.handlers.push(Box::new(handler)); self.handlers.len() - 1
add_handler(H) ==
    /\ qpc = "idle"
    /\ Len(handlers) < MaxHandlers
    /\ handlers' = Append(handlers, H)
    /\ ret' = [NoRet EXCEPT !.op = "add_handler", !.res = "Ok",
                            !.idx = Len(handlers') - 1, !.H = H]
    /\ UNCHANGED regvars
    /\ UNCHANGED <<wlevq, dispatcher, requests, buffer, last_error, qpc, call,
                   count, delivered, nsent, nspont, latest>>

\* a downcast that trusts the asserted type
downcast_ref_unchecked(stored, H) == TRUE

\* Box<Any>::downcast_ref::<H>() is Some exactly for a box holding an H
downcast_ref(stored, H) == stored = H

\* wl_proxy_add_dispatcher(proxy, dispatch_func::<P,H>, h, self): libwayland stores
\* the dispatcher on a proxy that has none, and refuses (returns -1, which register
\* does not look at) on a proxy that already has one
wl_proxy_add_dispatcher(p, H, handler_id) ==
    IF dispatcher[p].set THEN dispatcher
    ELSE [dispatcher EXCEPT ![p] = [set |-> TRUE, h |-> handler_id, H |-> H]]

\* a register that reads the vector without the bounds check: past the end it
\* takes what it finds for a handler and binds it
register_unchecked(p, handler_id, H) ==
    /\ qpc = "idle"
    /\ IF handler_id < Len(handlers) /\ ~downcast_ref(handlers[handler_id + 1], H)
       THEN /\ ret' = [NoRet EXCEPT !.op = "register", !.res = "panic",
                                    !.idx = handler_id, !.H = H]
            /\ UNCHANGED <<dispatcher, latest>>
       ELSE /\ dispatcher' = wl_proxy_add_dispatcher(p, H, handler_id)
            /\ latest' = [latest EXCEPT ![p] = [set |-> TRUE, h |-> handler_id, H |-> H]]
            /\ ret' = [NoRet EXCEPT !.op = "register", !.res = "Ok",
                                    !.idx = handler_id, !.H = H, !.ref = H]
    /\ UNCHANGED regvars
    /\ UNCHANGED <<handlers, wlevq, requests, buffer, last_error, qpc, call,
                   count, delivered, nsent, nspont>>

\* EventQueueHandle::register::<P, H>(proxy, handler_id)
register(p, handler_id, H) ==
    /\ qpc = "idle"
    /\ IF handler_id >= Len(handlers) \/ ~downcast_ref(handlers[handler_id + 1], H)
       THEN /\ ret' = [NoRet EXCEPT !.op = "register", !.res = "panic",
                                    !.idx = handler_id, !.H = H]
            /\ UNCHANGED <<dispatcher, latest>>
       ELSE /\ dispatcher' = wl_proxy_add_dispatcher(p, H, handler_id)
            /\ latest' = [latest EXCEPT ![p] = [set |-> TRUE, h |-> handler_id, H |-> H]]
            /\ ret' = [NoRet EXCEPT !.op = "register", !.res = "Ok",
                                    !.idx = handler_id, !.H = H,
                                    !.ref = handlers[handler_id + 1]]
    /\ UNCHANGED regvars
    /\ UNCHANGED <<handlers, wlevq, requests, buffer, last_error, qpc, call,
                   count, delivered, nsent, nspont>>

\* StateGuard::get_handler::<H>(handler_id)
get_handler(handler_id, H) ==
    /\ qpc = "idle"
    /\ ret' = IF handler_id >= Len(handlers) \/ ~downcast_ref(handlers[handler_id + 1], H)
              THEN [NoRet EXCEPT !.op = "get_handler", !.res = "panic",
                                 !.idx = handler_id, !.H = H]
              ELSE [NoRet EXCEPT !.op = "get_handler", !.res = "Ok",
                                 !.idx = handler_id, !.H = H,
                                 !.ref = handlers[handler_id + 1]]
    /\ UNCHANGED regvars
    /\ UNCHANGED <<handlers, wlevq, dispatcher, requests, buffer, last_error, qpc,
                   call, count, delivered, nsent, nspont, latest>>

\* StateGuard::get_mut_handler::<H>(handler_id)
get_mut_handler(handler_id, H) ==
    /\ qpc = "idle"
    /\ ret' = IF handler_id >= Len(handlers) \/ ~downcast_ref(handlers[handler_id + 1], H)
              THEN [NoRet EXCEPT !.op = "get_mut_handler", !.res = "panic",
                                 !.idx = handler_id, !.H = H]
              ELSE [NoRet EXCEPT !.op = "get_mut_handler", !.res = "Ok",
                                 !.idx = handler_id, !.H = H,
                                 !.ref = handlers[handler_id + 1]]
    /\ UNCHANGED regvars
    /\ UNCHANGED <<handlers, wlevq, dispatcher, requests, buffer, last_error, qpc,
                   call, count, delivered, nsent, nspont, latest>>

\* the proxies that have no dispatcher yet
Unbound == {p \in Proxies : ~dispatcher[p].set}

\* one EventQueue driven over the connection; every proxy is registered once
QueueNext ==
    \/ \E p \in Proxies : send_request(p)
    \/ compositor_process
    \/ \E p \in Proxies : compositor_event(p)
    \/ connection_fail
    \/ \E f \in 0..(MaxMessages + 1), why \in Outcomes \ {"ok"} : dispatch(f, why)
    \/ \E f \in 0..(MaxMessages + 1), why \in Outcomes \ {"ok"} :
            dispatch_pending(f, why)
    \/ sync_roundtrip
    \/ \E f \in 0..(MaxMessages + 1), why \in Outcomes \ {"ok"} :
            wl_display_dispatch_queue(f, why)
    \/ \E H \in QueueTypes : Len(handlers) < Cardinality(QueueHandlers) /\ add_handler(H)
    \/ \E p \in Unbound, i \in QueueHandlers, H \in QueueTypes : register(p, i, H)

\* the Handler Registry alone: StateGuard and EventQueueHandle
HandlerNext ==
    \/ \E H \in Types : add_handler(H)
    \/ \E p \in Proxies, i \in 0..MaxHandlers, H \in Types : register(p, i, H)
    \/ \E i \in 0..MaxHandlers, H \in Types : get_handler(i, H)
    \/ \E i \in 0..MaxHandlers, H \in Types : get_mut_handler(i, H)

\* registrations, also of proxies already registered, and the dispatch of events
RegisterNext ==
    \/ \E H \in QueueTypes : Len(handlers) < Cardinality(RegisterHandlers) /\ add_handler(H)
    \/ \E p \in Proxies, i \in RegisterHandlers, H \in QueueTypes : register(p, i, H)
    \/ \E p \in Proxies : compositor_event(p)
    \/ \E f \in 0..(MaxMessages + 1), why \in Outcomes \ {"ok"} :
            dispatch_pending(f, why)

Next == RegistryNext

Spec == Init /\ [][Next]_vars

EngineSpec == Init /\ [][EngineNext]_vars

QueueSpec == QueueInit /\ [][QueueNext]_vars

HandlerSpec == Init /\ [][HandlerNext]_vars

RegisterSpec == QueueInit /\ [][RegisterNext]_vars

\* ============================================================ the event queue
Replies(seq) == {i \in DOMAIN seq : seq[i].kind = "reply"}
Returned(op, res) == ret.op = op /\ ret.res = res

\* C6: EventQueue::dispatch called with nothing queued does not return before the
\* connection delivered a message, so it never returns Ok(0) from an empty
\* buffer: what it returns then counts at least one dispatched message.
C6_DispatchWaitsForAMessage ==
    (Returned("dispatch", "Ok") /\ ret.had = 0) => ret.n >= 1

\* C7: EventQueue::dispatch_pending never waits for the connection; it fails only
\* on a display in error; when it returns Ok(n), n is the number of messages that
\* were queued at the call and no handler ran for anything else; from an empty
\* buffer that is Ok(0) with no handler invoked.
C7_DispatchPendingNeverWaits ==
    /\ ~(qpc = "waiting" /\ call = "dispatch_pending")
    /\ ret.op = "dispatch_pending" =>
          /\ ret.res \in {"Ok", "Err", "abort"}
          /\ ret.res = "Err" => last_error
          /\ ret.res = "Ok" =>
                /\ ret.n = ret.had
                /\ Len(delivered) - ret.log0 <= ret.had
                /\ ret.had = 0 => (ret.n = 0 /\ Len(delivered) = ret.log0)

C7_Witness ==
    /\ Returned("dispatch_pending", "Ok")
    /\ ret.had = 0
    /\ ret.n = 0
    /\ ~last_error
    /\ requests # << >>
    /\ delivered = << >>

\* C8: when EventQueue::sync_roundtrip returns Ok, the compositor has processed
\* every request sent before the call and the event answering each of them went
\* through dispatch: none is left in a buffer, and the dispatched answers are as
\* many as the requests.
C8_RoundtripIsABarrier ==
    Returned("sync_roundtrip", "Ok") =>
        /\ requests = << >>
        /\ \A q \in Queues : Replies(buffer[q]) = {}
        /\ Cardinality(Replies(delivered)) = nsent
        /\ qpc = "idle"

C8_Witness ==
    /\ Returned("sync_roundtrip", "Ok")
    /\ ret.had = 0
    /\ nsent >= 1
    /\ \E i \in Replies(delivered) : delivered[i].out = "ok" /\ i > ret.log0

\* C9: after two registrations of a proxy every message dispatched for it invokes
\* the handler of the latest registration, and only that one.
C9_LatestRegistrationDispatched ==
    [][\A k \in (Len(delivered) + 1)..Len(delivered') :
          latest[delivered'[k].proxy].set =>
              /\ delivered'[k].out # "dropped"
              /\ delivered'[k].h = latest[delivered'[k].proxy].h]_vars

\* C10: get_handler, get_mut_handler and register with an index in range panic
\* exactly when the asserted type H is not the type the handler was added with;
\* otherwise the reference is to the handler stored at that index, of type H; no
\* proxy is ever bound to a handler under a type that is not its own.
C10_MismatchedTypePanics ==
    /\ (ret.op \in {"get_handler", "get_mut_handler", "register"}
            /\ ret.idx < Len(handlers)) =>
          /\ ret.res \in {"Ok", "panic"}
          /\ ret.res = "panic" <=> handlers[ret.idx + 1] # ret.H
          /\ ret.res = "Ok" => (ret.ref = handlers[ret.idx + 1] /\ ret.ref = ret.H)
    /\ \A p \in Proxies :
          dispatcher[p].set =>
              /\ dispatcher[p].h < Len(handlers)
              /\ handlers[dispatcher[p].h + 1] = dispatcher[p].H

C10_Witness ==
    /\ Returned("register", "panic")
    /\ ret.idx < Len(handlers)
    /\ handlers[ret.idx + 1] # ret.H
    /\ \A p \in Proxies : ~dispatcher[p].set

\* C13: a handler that panics ends the process inside that invocation: the
\* faulting message is the last one ever handed to a handler, the call in progress
\* never returns, and from then on nothing of the queue, its handlers or the
\* connection changes or is looked at again.
C13_HandlerPanicAborts ==
    /\ [](\A k \in DOMAIN delivered :
            delivered[k].out = "panic" =>
                /\ k = Len(delivered)
                /\ qpc = "aborted"
                /\ ret.res = "abort")
    /\ [][(\E k \in DOMAIN delivered : delivered[k].out = "panic") => qvars' = qvars]_vars

C13_Witness ==
    /\ qpc = "aborted"
    /\ Len(delivered) >= 2
    /\ delivered[Len(delivered)].out = "panic"
    /\ delivered[1].out = "ok"
    /\ buffer[ProxyQueue] # << >>

\* the arrival numbers of a sequence of events, the done events left out
Numbers(seq) ==
    LET evs == SelectSeq(seq, LAMBDA e : e.kind # "done")
    IN  [i \in 1..Len(evs) |-> evs[i].n]
Of(seq, p) == SelectSeq(seq, LAMBDA e : e.kind # "done" /\ e.proxy = p)
Increasing(ns) == \A i, j \in DOMAIN ns : i < j => ns[i] < ns[j]

\* C15: the events handed to dispatch, followed by those still queued, are the
\* events of the connection in their order of arrival, each once: so for every
\* proxy the events dispatched for it are a prefix of the arrivals addressed to
\* it, in that order; each went to the dispatcher bound to its proxy if there is
\* one; and a dispatch or dispatch_pending that returns Ok left none of the events
\* queued at the call undispatched.
C15_PerObjectArrivalOrder ==
    /\ Numbers(delivered) \o Numbers(buffer[ProxyQueue]) = [i \in 1..arrived |-> i]
    /\ \A p \in Proxies :
          Increasing(Numbers(Of(delivered, p)) \o Numbers(Of(buffer[ProxyQueue], p)))
    /\ \A k \in DOMAIN delivered :
          delivered[k].out # "dropped" =>
              /\ dispatcher[delivered[k].proxy].set
              /\ delivered[k].h = dispatcher[delivered[k].proxy].h
    /\ (ret.op \in {"dispatch", "dispatch_pending"} /\ ret.res = "Ok") =>
          Len(delivered) = ret.log0 + ret.had

C15_Witness ==
    /\ Len(delivered) = 2
    /\ delivered[1].proxy = delivered[2].proxy
    /\ delivered[1].out = "ok" /\ delivered[2].out = "ok"
    /\ delivered[1].n = 1 /\ delivered[2].n = 2
    /\ Returned("dispatch_pending", "Ok")
    /\ ret.log0 = 1
    /\ wlevq = "Some"

\* C16: add_handler returns the number of handlers added before it, the new
\* handler is stored at that index, and no call ever removes, moves or replaces a
\* stored handler: every index returned earlier designates the same handler.
C16_AddHandlerIndexIsStable ==
    /\ [](Returned("add_handler", "Ok") =>
            /\ ret.idx = Len(handlers) - 1
            /\ handlers[ret.idx + 1] = ret.H)
    /\ [][/\ Len(handlers') >= Len(handlers)
          /\ \A i \in DOMAIN handlers : handlers'[i] = handlers[i]
          /\ handlers' # handlers =>
                /\ ret'.op = "add_handler"
                /\ ret'.idx = Len(handlers)
                /\ handlers' = Append(handlers, ret'.H)]_vars

C16_Witness ==
    /\ Len(handlers) = 2
    /\ handlers[1] # handlers[2]
    /\ \E p \in Proxies : dispatcher[p].set /\ dispatcher[p].h = 1
    /\ Returned("get_handler", "Ok")
    /\ ret.idx = 0
    /\ ret.ref = handlers[1]

\* C17: register with an index no add_handler returned (index >= number of stored
\* handlers) panics and binds nothing: the dispatcher of every proxy, and the
\* handlers, are what they were before the call.
C17_RegisterOutOfRangePanics ==
    [][(ret'.op = "register" /\ ret'.idx >= Len(handlers)) =>
            /\ ret'.res = "panic"
            /\ dispatcher' = dispatcher
            /\ handlers' = handlers]_vars

C17_Witness ==
    /\ Returned("register", "panic")
    /\ ret.idx >= Len(handlers)
    /\ Len(handlers) >= 1
    /\ \E p \in Proxies : dispatcher[p].set

QueueCalls == {"dispatch", "dispatch_pending", "sync_roundtrip"}

\* C18: a call of dispatch, dispatch_pending or sync_roundtrip that returns gives
\* Err exactly when the connection reported a failure (the display is in error)
\* and otherwise Ok(n), n being the count the connection reported, the events it
\* took from the queue during the call; an Err leaves the queue idle, with its
\* handlers, its queue assignment, the dispatchers and the pending events as they
\* were, and nothing in the queue remembers it.
C18_NoErrorState ==
    /\ []((ret.op \in QueueCalls /\ ret.res = "Err") =>
            /\ qpc = "idle"
            /\ call = "none"
            /\ count = 0
            /\ ENABLED dispatch_pending(0, "panic")
            /\ ENABLED dispatch(0, "panic")
            /\ ENABLED sync_roundtrip)
    /\ [][(ret' # ret /\ ret'.op \in QueueCalls) =>
            /\ ret'.res \in {"Ok", "Err", "abort", "blocked"}
            /\ ret'.res = "Err" <=> last_error
            /\ ret'.res = "Ok" =>
                  /\ ret'.n = count + Len(buffer[ProxyQueue]) - Len(buffer'[ProxyQueue])
                  /\ qpc' = "idle"
            /\ ret'.res = "Err" =>
                  /\ qpc' = "idle"
                  /\ handlers' = handlers
                  /\ wlevq' = wlevq
                  /\ dispatcher' = dispatcher
                  /\ buffer' = buffer
                  /\ delivered' = delivered]_vars

C18_Witness ==
    /\ Returned("sync_roundtrip", "Err")
    /\ ret.had = 0
    /\ buffer[ProxyQueue] # << >>
    /\ handlers # << >>
    /\ \E p \in Proxies : dispatcher[p].set
    /\ qpc = "idle"

\* ========================================================= the Dispatch Engine
Allocated == {i \in Ids : i < next_id}
DecodeFailed(t) == pc[t] = "done" /\ result[t] = "Err" /\ msg[t] = NoMsg
Quiet(t) ==
    /\ pc'[t] = pc[t]
    /\ msg'[t] = msg[t]
    /\ calls'[t] = calls[t]
    /\ result'[t] = result[t]

Unimplemented(t) == pc[t] = "done" /\ result[t] = "Err" /\ msg[t].id \in Ids

C14_LockFreeDuringCallback ==
    \A t \in Threads :
        /\ pc[t] \in {"call", "in_callback"} => t \notin lock
        /\ (pc[t] = "in_callback" /\ lock = {}) => ENABLED get_from_id_lock(t)
        /\ pc[t] = "get" => (lock = {t} /\ ENABLED get_from_id_unlock(t))

C14_Witness ==
    \E t, u \in Threads :
        /\ pc[t] = "get"
        /\ lock = {t}
        /\ msg[t].destructor
        /\ pc[u] = "in_callback"
        /\ ~msg[u].destructor

ServerSide(p) == p \in {"s_with", "s_remove", "s_unlock"}
RunsDestructor(t) == msg[t].id \in Ids /\ msg[t].destructor
RunsEvent(t) == msg[t].id \in Ids /\ ~msg[t].destructor /\ result[t] # "Err"

\* C19: no step of the dispatch of a non-destructor event changes the map, a
\* destruction flag, an alive flag or the history of removals, and it never takes
\* the lock (only its callback may, to look an object up); the callback is invoked
\* exactly once: not yet before the call, once from then on, and dispatch
\* returns Ok.
C19_EventLeavesLifecycleAlone ==
    /\ [](\A t \in Threads :
            (RunsEvent(t) /\ ~ServerSide(pc[t])) =>
                /\ pc[t] \in {"call", "in_callback", "get", "done"}
                /\ pc[t] = "call" => calls[t] = 0
                /\ pc[t] \in {"in_callback", "get"} => calls[t] = 1
                /\ (pc[t] = "done" /\ result[t] = "Ok") => calls[t] = 1
                /\ pc[t] # "get" => t \notin lock)
    /\ [][\A t \in Threads :
            (~Quiet(t) /\ RunsEvent(t)' /\ ~ServerSide(pc[t]) /\ ~ServerSide(pc'[t])) =>
                /\ map' = map
                /\ alive' = alive
                /\ removals' = removals
                /\ marks' = marks]_vars

C19_Witness ==
    \E t \in Threads :
        /\ RunsEvent(t)
        /\ pc[t] = "done"
        /\ result[t] = "Ok"
        /\ calls[t] = 1
        /\ find(map, msg[t].id)
        /\ alive[msg[t].id]
        /\ map[msg[t].id].server_destroyed
        /\ ~map[msg[t].id].client_destroyed

\* C20: the dispatch of a destructor event whose record is not in the map goes
\* through: the lookup gives server_destroyed = false, no step of it changes the
\* map or removes anything, the alive flag of an absent object is and stays false,
\* and every destructor dispatch ends in Ok with the callback invoked once.
C20_DestructorOnAbsentRecord ==
    /\ [](\A i \in Allocated : ~find(map, i) => ~alive[i])
    /\ [](\A t \in Threads :
            RunsDestructor(t) =>
                /\ pc[t] \in {"alive_store", "lock", "with", "remove", "unlock", "call",
                               "in_callback", "get", "done"}
                /\ result[t] \in {"none", "Ok"}
                /\ pc[t] = "done" => (result[t] = "Ok" /\ calls[t] = 1))
    /\ [][\A t \in Threads :
            (RunsDestructor(t) /\ ~Quiet(t) /\ ~find(map, msg[t].id)
                /\ pc[t] \in {"alive_store", "lock", "with", "remove", "unlock"}) =>
                /\ map' = map
                /\ removals' = removals
                /\ marks' = marks
                /\ ~alive'[msg[t].id]
                /\ pc[t] = "with" => (pc'[t] = "remove" /\ ~server_destroyed'[t])]_vars

C20_Witness ==
    \E t \in Threads :
        /\ RunsDestructor(t)
        /\ pc[t] = "in_callback"
        /\ calls[t] = 1
        /\ ~find(map, msg[t].id)
        /\ removals[msg[t].id] = 1
        /\ ~seen_server[t]
        /\ marks[msg[t].id] = <<"server", "client">>
        /\ \E j \in DOMAIN map : ~map[j].client_destroyed

\* ================================================== the destruction handshake
BothFlags(r) == r.client_destroyed /\ r.server_destroyed
Sides(id) == {marks[id][k] : k \in 1..Len(marks[id])}

\* C1: a record that left the map had client_destroyed and server_destroyed both
\* true when it was removed; an identifier is absent from the map only through
\* such a removal, so a record with a flag still false is never removed.
C1_RemovedOnlyWithBothFlags ==
    \A i \in Ids :
        /\ removals[i] > 0 => BothFlags(removed_with[i])
        /\ (i \in Allocated /\ ~find(map, i)) => removals[i] > 0

C1_Witness ==
    \E i \in Ids : removals[i] = 1 /\ ~find(map, i) /\ BothFlags(removed_with[i])

\* C2: in both orders of the two markings a record is removed exactly once, by the
\* locked mutation that sets the second flag: whenever the map's lock is free, a
\* record is absent exactly when both sides have set their flag, it was then
\* removed once, and a record marked by one side only is still in the map.
C2_RemovedOnceAtSecondFlag ==
    \A i \in Allocated :
        /\ removals[i] <= 1
        /\ lock = {} =>
              /\ find(map, i) <=> Sides(i) # {"client", "server"}
              /\ removals[i] = (IF Sides(i) = {"client", "server"} THEN 1 ELSE 0)
              /\ find(map, i) =>
                    /\ map[i].client_destroyed <=> "client" \in Sides(i)
                    /\ map[i].server_destroyed <=> "server" \in Sides(i)

C2_Witness ==
    /\ lock = {}
    /\ \E i, j \in Ids :
          /\ marks[i] = <<"client", "server">> /\ removals[i] = 1 /\ ~find(map, i)
          /\ marks[j] = <<"server", "client">> /\ removals[j] = 1 /\ ~find(map, j)

\* C3: no thread that acquires the map's lock, and no state in which the lock is
\* free, has a record in the map with both flags true; at most one thread holds
\* the lock.
JustLocked(t) == lock = {t} /\ pc[t] \in {"with", "s_with"}

C3_NoLiveRecordWithBothFlags ==
    /\ Cardinality(lock) <= 1
    /\ (lock = {} \/ \E t \in Threads : JustLocked(t)) =>
            \A i \in DOMAIN map : ~BothFlags(map[i])

C3_Witness ==
    \E t, u \in Threads :
        /\ t # u
        /\ JustLocked(t)
        /\ pc[u] \in {"lock", "call", "in_callback"}
        /\ msg[u].id = msg[t].id
        /\ removals[msg[t].id] = 1

\* C4: a destructor event dispatched for a record whose server_destroyed flag is
\* already set: the record is out of the map while the callback runs and when
\* dispatch returns, and the callback is invoked exactly once (not before the
\* bookkeeping, once from then on).
C4_RemovedBeforeCallbackReturns ==
    \A t \in Threads :
        seen_server[t] =>
            /\ pc[t] \in {"in_callback", "done"} =>
                    ~find(map, msg[t].id) /\ calls[t] = 1
            /\ pc[t] = "done" => result[t] = "Ok"
            /\ pc[t] \notin {"in_callback", "done"} => calls[t] = 0

C4_Witness ==
    \E t \in Threads :
        /\ seen_server[t]
        /\ pc[t] = "in_callback"
        /\ calls[t] = 1
        /\ removals[msg[t].id] = 1

\* C5: while the callback of a destructor event runs, the object's alive flag is
\* false and the bookkeeping is over: the thread no longer holds the map's lock
\* and the record, if still in the map, has client_destroyed set.
C5_DeadBeforeCallback ==
    \A t \in Threads :
        (pc[t] = "in_callback" /\ RunsDestructor(t)) =>
            /\ alive[msg[t].id] = FALSE
            /\ t \notin lock
            /\ find(map, msg[t].id) => map[msg[t].id].client_destroyed

C5_Witness ==
    \E t \in Threads :
        /\ pc[t] = "in_callback"
        /\ RunsDestructor(t)
        /\ find(map, msg[t].id)
        /\ ~alive[msg[t].id]

====
